---- MODULE Spec2Model ----
(***************************************************************************)
(* A model of ObjectEnumerationBuilder (src/src/objectEnumerationBuilder.ts)*)
(*                                                                         *)
(* The builder and the static combinators work on JavaScript objects that  *)
(* are shared by reference: complete() hands out the builder's own arrays, *)
(* merge() pushes y's instance records into x's array, rewrites their      *)
(* containerIdx in place and may install y's container array in x.  The    *)
(* model therefore keeps a heap: instance records, instance arrays,        *)
(* container arrays and result objects are sequences indexed by reference  *)
(* (1-based); a field holds a reference or Undefined.                      *)
(*                                                                         *)
(* Property maps ('properties', 'validValues') are kept inside the record  *)
(* that owns them: the code never makes two records share a map (extend    *)
(* allocates a fresh {} for a missing target map and copies values).       *)
(***************************************************************************)
EXTENDS Integers, Sequences, FiniteSets, TLC

----------------------------------------------------------------------------
(* Bounds of the model *)

\* instance records the callers create
MaxRecs == 3
\* container objects the callers create
MaxContainers == 3
\* result objects (made by complete and by normalize of a list)
MaxObjs == 3
\* builders constructed after the first one
MaxBuilders == 2
\* cap on the length of any array
MaxArrLen == 3

\* The same bounds of the two specifications that use every operation with
\* every kind of argument (Spec, MergeSpec)
SmallRecs == 2
SmallContainers == 2
SmallObjs == 2
SmallBuilders == 1

----------------------------------------------------------------------------
(* JavaScript values *)

\* undefined, for a field that holds a number or a reference
Undefined == -1

\* the value a property map gives for a key it does not have (undefined)
Missing == "undefined"

\* property values, written as JavaScript literals
Values == {"0", "1", "2", "false", "''"}

\* ToBoolean of a property value (the falsy literals of the language)
ToBoolean(v) == v \notin {"undefined", "null", "false", "0", "NaN", "''"}

Keys == {"p", "q"}

\* a property map: 'defined' is false when the field is absent
NoMap == [defined |-> FALSE, vals |-> [k \in Keys |-> Missing]]
MapP(v) == [defined |-> TRUE, vals |-> [k \in Keys |-> IF k = "p" THEN v ELSE Missing]]
MapPQ(v, w) == [defined |-> TRUE, vals |-> [k \in Keys |-> IF k = "p" THEN v ELSE w]]

\* selectors: the falsy values undefined, null, false and objects {id, metadata}
SelUndefined == [kind |-> "undefined", id |-> "", metadata |-> ""]
SelNull == [kind |-> "null", id |-> "", metadata |-> ""]
SelFalse == [kind |-> "false", id |-> "", metadata |-> ""]
SelObj(i, m) == [kind |-> "object", id |-> i, metadata |-> m]

\* !x for a selector
SelFalsy(s) == s.kind # "object"

\* an instance as a caller writes it: containerIdx is never set by callers
Inst(n, s, p, v) ==
  [objectName |-> n, selector |-> s, containerIdx |-> Undefined,
   properties |-> p, validValues |-> v]

\* instances that differ in what identifies them
IdentityInstances ==
  {Inst(n, s, NoMap, NoMap) : n \in {"a", "b"}, s \in {SelUndefined, SelFalse, SelObj("i1", "m1")}}
    \cup {Inst("a", SelObj("i2", "m1"), NoMap, NoMap), Inst("a", SelObj("i1", "m2"), NoMap, NoMap)}

\* instances of one target that differ in what they carry
PayloadInstances ==
  {Inst("a", SelUndefined, p, NoMap) : p \in {MapP("0"), MapP("1"), MapPQ("2", "''")}}
    \cup {Inst("a", SelUndefined, NoMap, v) : v \in {MapP("false"), MapPQ("1", "2")}}

\* the selectors a caller can pass: the falsy ones, and objects whose id and
\* metadata are primitive values or absent
Selectors ==
  {SelUndefined, SelNull, SelFalse}
    \cup {SelObj(i, m) : i \in {Missing, "i1", "i2"}, m \in {Missing, "m1", "m2"}}

RichInstances == IdentityInstances \cup PayloadInstances

\* the instances of the merge specification
PlainInstances == {Inst("a", SelUndefined, NoMap, NoMap)}

----------------------------------------------------------------------------
(* State *)

VARIABLES
  recs,       \* heap of VisualObjectInstance records
  instArrs,   \* heap of VisualObjectInstance[] arrays (sequences of record references)
  contArrs,   \* heap of VisualObjectInstanceContainer[] arrays
  objs,       \* heap of VisualObjectInstanceEnumerationObject objects ('from': what made it)
  builder,    \* the fields of the ObjectEnumerationBuilder in use
  made,       \* how many builders (after the first) and containers the callers have created
  pc,         \* "idle", or "merge" inside a loop of merge that does not end
  frame,      \* the locals of that merge
  hist,       \* what was called on the builder in use
  last        \* the last call that returned: its arguments and its result

vars == <<recs, instArrs, contArrs, objs, builder, made, pc, frame, hist, last>>

\* an argument or result of complete/normalize/merge
None == [kind |-> "none", ref |-> 0]
Obj(r) == [kind |-> "obj", ref |-> r]
List(r) == [kind |-> "list", ref |-> r]

\* the heap as one value, and the heap after the step
Heap == [recs |-> recs, instArrs |-> instArrs, contArrs |-> contArrs, objs |-> objs]
HeapNext == [recs |-> recs', instArrs |-> instArrs', contArrs |-> contArrs', objs |-> objs']

NoFrame == [x |-> 0, y |-> 0, xCategoryCount |-> 0, i |-> 0]

\* 'sel' and 'eq' are the arguments and the result of a call of selectorEquals
Call(op) ==
  [op |-> op, inst |-> 0, mergeInstances |-> FALSE, x |-> None, y |-> None, ret |-> None,
   sel |-> <<>>, eq |-> FALSE]

NoHist == [pushedInstance |-> FALSE, containers |-> <<>>, open |-> FALSE]

NewBuilderFields == [instances |-> Undefined, containers |-> Undefined, containerIdx |-> Undefined]

Init ==
  /\ recs = <<>>
  /\ instArrs = <<>>
  /\ contArrs = <<>>
  /\ objs = <<>>
  /\ builder = NewBuilderFields
  /\ made = [builders |-> 0, containers |-> 0]
  /\ pc = "idle"
  /\ frame = NoFrame
  /\ hist = NoHist
  /\ last = Call("new")

----------------------------------------------------------------------------
(* Reading the heap *)

\* the set of the entries of a sequence
Range(q) == {q[j] : j \in 1..Len(q)}

\* the instance sequence behind a reference (empty when never allocated)
InstSeq(arrs, a) == IF a = Undefined THEN <<>> ELSE arrs[a]

\* the container sequence behind a reference (empty when never allocated)
ContSeq(arrs, c) == IF c = Undefined THEN <<>> ELSE arrs[c]

----------------------------------------------------------------------------
(* The merge predicate and the field-extension rule *)

\* selectorEquals without x = x || null, y = y || null: two falsy selectors
\* are equal only when they are the same value
selectorEqualsWithoutDefault(x, y) ==
  IF SelFalsy(x) /\ SelFalsy(y) THEN x.kind = y.kind
  ELSE IF SelFalsy(x) # SelFalsy(y) THEN FALSE
  ELSE IF x.id # y.id THEN FALSE
  ELSE IF x.metadata # y.metadata THEN FALSE
  ELSE TRUE

\* selectorEquals without the comparison of metadata
selectorEqualsById(x, y) ==
  LET xn == IF SelFalsy(x) THEN SelNull ELSE x
      yn == IF SelFalsy(y) THEN SelNull ELSE y
  IN IF SelFalsy(xn) /\ SelFalsy(yn) THEN TRUE
     ELSE IF SelFalsy(xn) # SelFalsy(yn) THEN FALSE
     ELSE IF xn.id # yn.id THEN FALSE
     ELSE TRUE

selectorEquals(x, y) ==
  LET xn == IF SelFalsy(x) THEN SelNull ELSE x
      yn == IF SelFalsy(y) THEN SelNull ELSE y
  IN IF SelFalsy(xn) /\ SelFalsy(yn) THEN TRUE
     ELSE IF SelFalsy(xn) # SelFalsy(yn) THEN FALSE
     ELSE IF xn.id # yn.id THEN FALSE
     ELSE IF xn.metadata # yn.metadata THEN FALSE
     ELSE TRUE

\* canMerge without the comparison of containerIdx
canMergeAcrossContainers(x, y) ==
  /\ x.objectName = y.objectName
  /\ selectorEquals(x.selector, y.selector)

canMerge(x, y) ==
  /\ x.objectName = y.objectName
  /\ x.containerIdx = y.containerIdx
  /\ selectorEquals(x.selector, y.selector)

\* the map target[propertyName] has after extend(target, source, propertyName)
extendValues(targetValues, sourceValues) ==
  [defined |-> TRUE,
   vals |-> [k \in Keys |->
     IF sourceValues.vals[k] = Missing THEN targetValues.vals[k]
     ELSE IF ToBoolean(targetValues.vals[k]) THEN targetValues.vals[k]
     ELSE sourceValues.vals[k]]]

\* the heap of records after extend(target, source, propertyName)
extend(rs, target, source, propertyName) ==
  IF ~rs[source][propertyName].defined THEN rs
  ELSE [rs EXCEPT ![target][propertyName] =
          extendValues(rs[target][propertyName], rs[source][propertyName])]

\* position of the last existing instance the incoming one can merge with, or 0
RECURSIVE lastMatch(_, _, _, _)
lastMatch(rs, arr, instance, i) ==
  IF i > Len(arr) THEN 0
  ELSE LET later == lastMatch(rs, arr, instance, i + 1)
       IN IF later # 0 THEN later
          ELSE IF canMerge(rs[arr[i]], rs[instance]) THEN i
          ELSE 0

\* position of the first existing instance the incoming one can merge with, or 0
RECURSIVE firstMatch(_, _, _, _)
firstMatch(rs, arr, instance, i) ==
  IF i > Len(arr) THEN 0
  ELSE IF canMerge(rs[arr[i]], rs[instance]) THEN i
  ELSE firstMatch(rs, arr, instance, i + 1)

----------------------------------------------------------------------------
(* The accumulator *)

\* pushInstance without instances.push(instance)
forgetInstance(arr, instance) == arr

\* instances.unshift(instance) in place of instances.push(instance)
unshiftInstance(arr, instance) == <<instance>> \o arr

\* instances.push(instance)
appendInstance(arr, instance) == Append(arr, instance)

\* pushInstance(instance, mergeInstances), the instance being record 'instance' of heap rs
pushInstanceOn(rs, instance, mergeInstances) ==
  LET allocate == builder.instances = Undefined
      arrs1 == IF allocate THEN Append(instArrs, <<>>) ELSE instArrs
      a == IF allocate THEN Len(arrs1) ELSE builder.instances
      containerIdx == builder.containerIdx
      rs1 == IF containerIdx # Undefined
             THEN [rs EXCEPT ![instance].containerIdx = containerIdx]
             ELSE rs
      hit == IF mergeInstances THEN firstMatch(rs1, arrs1[a], instance, 1) ELSE 0
  IN /\ pc = "idle"
     /\ builder' = [builder EXCEPT !.instances = a]
     /\ IF hit # 0
        THEN /\ recs' = extend(extend(rs1, arrs1[a][hit], instance, "properties"),
                               arrs1[a][hit], instance, "validValues")
             /\ instArrs' = arrs1
             /\ last' = [Call("pushInstance") EXCEPT !.inst = instance,
                           !.mergeInstances = mergeInstances]
        ELSE /\ Len(arrs1[a]) < MaxArrLen
             /\ recs' = rs1
             /\ instArrs' = [arrs1 EXCEPT ![a] = appendInstance(@, instance)]
             /\ last' = [Call("pushInstance") EXCEPT !.inst = instance,
                           !.mergeInstances = mergeInstances]
     /\ hist' = [hist EXCEPT !.pushedInstance = TRUE]
     /\ UNCHANGED <<contArrs, objs, made, pc, frame>>

\* pushInstance of a record the caller has just written
PushNewInstance(v, mergeInstances) ==
  /\ Len(recs) < MaxRecs
  /\ pushInstanceOn(Append(recs, v), Len(recs) + 1, mergeInstances)

\* pushInstance of a record that was pushed before
PushSameInstance(instance, mergeInstances) ==
  /\ instance \in 1..Len(recs)
  /\ pushInstanceOn(recs, instance, mergeInstances)

\* the cursor set to updatedLen in place of updatedLen - 1
cursorPastTheEnd(updatedLen) == updatedLen

\* this.containerIdx = updatedLen - 1
cursorAfterPush(updatedLen) == updatedLen - 1

\* containers.unshift(container) in place of containers.push(container)
unshiftContainer(arr, container) == <<container>> \o arr

\* containers.push(container)
appendContainer(arr, container) == Append(arr, container)

\* pushContainer(container); a container is an opaque object, named by a number
pushContainer(container) ==
  LET allocate == builder.containers = Undefined
      arrs1 == IF allocate THEN Append(contArrs, <<>>) ELSE contArrs
      c == IF allocate THEN Len(arrs1) ELSE builder.containers
      updatedLen == Len(arrs1[c]) + 1
  IN /\ pc = "idle"
     /\ Len(arrs1[c]) < MaxArrLen
     /\ contArrs' = [arrs1 EXCEPT ![c] = appendContainer(@, container)]
     /\ builder' = [builder EXCEPT !.containers = c, !.containerIdx = cursorAfterPush(updatedLen)]
     /\ hist' = [hist EXCEPT !.containers = Append(@, container), !.open = TRUE]
     /\ last' = Call("pushContainer")
     /\ UNCHANGED <<recs, instArrs, objs, pc, frame>>

\* pushContainer of a container the caller has just created
PushNewContainer ==
  /\ made.containers < MaxContainers
  /\ made' = [made EXCEPT !.containers = @ + 1]
  /\ pushContainer(made.containers + 1)

\* a pop that goes back to the container pushed before
cursorRestored(containerIdx) ==
  IF containerIdx # Undefined /\ containerIdx > 0 THEN containerIdx - 1 ELSE Undefined

\* this.containerIdx = undefined
cursorAfterPop(containerIdx) == Undefined

popContainer ==
  /\ pc = "idle"
  /\ builder' = [builder EXCEPT !.containerIdx = cursorAfterPop(@)]
  /\ hist' = [hist EXCEPT !.open = FALSE]
  /\ last' = Call("popContainer")
  /\ UNCHANGED <<recs, instArrs, contArrs, objs, made, pc, frame>>

\* a test of this.containers in place of this.instances
nothingToCompleteByContainers(b) == b.containers = Undefined

\* !this.instances
nothingToComplete(b) == b.instances = Undefined

complete ==
  /\ pc = "idle"
  /\ IF nothingToComplete(builder)
     THEN /\ objs' = objs
          /\ last' = Call("complete")
     ELSE /\ Len(objs) < MaxObjs
          /\ objs' = Append(objs, [instances |-> builder.instances,
                                   containers |-> builder.containers,
                                   from |-> "complete"])
          /\ last' = [Call("complete") EXCEPT !.ret = Obj(Len(objs) + 1)]
  /\ UNCHANGED <<recs, instArrs, contArrs, builder, made, pc, frame, hist>>

----------------------------------------------------------------------------
(* The accumulator alone: one builder, every kind of instance *)

Next ==
  \/ \E v \in RichInstances, m \in BOOLEAN : Len(recs) < SmallRecs /\ PushNewInstance(v, m)
  \/ \E r \in 1..MaxRecs, m \in BOOLEAN : PushSameInstance(r, m)
  \/ made.containers < SmallContainers /\ PushNewContainer
  \/ popContainer
  \/ Len(objs) < SmallObjs /\ complete

Spec == Init /\ [][Next]_vars

----------------------------------------------------------------------------
(* The static combinators *)

\* new ObjectEnumerationBuilder(): the caller goes on with a fresh builder
NewBuilder ==
  /\ pc = "idle"
  /\ made.builders < MaxBuilders
  /\ made' = [made EXCEPT !.builders = @ + 1]
  /\ builder' = NewBuilderFields
  /\ hist' = NoHist
  /\ last' = Call("new")
  /\ UNCHANGED <<recs, instArrs, contArrs, objs, pc, frame>>

\* what a caller can pass as an enumeration: nothing, a result object, or the
\* instance array of a result as a bare list
Enumerations ==
  {None} \cup {Obj(o) : o \in 1..MaxObjs} \cup {List(a) : a \in 1..MaxObjs}

Exists(os, arrs, x) ==
  \/ x = None
  \/ x.kind = "obj" /\ x.ref <= Len(os)
  \/ x.kind = "list" /\ x.ref <= Len(arrs)

\* normalize that wraps whatever it is given: { instances: ... } also for
\* an argument that is a result object already
normalizeAlwaysWraps(os, x) ==
  IF x.kind = "none" THEN os
  ELSE Append(os, [instances |-> IF x.kind = "list" THEN x.ref ELSE os[x.ref].instances,
                   containers |-> Undefined, from |-> "normalize"])

\* the heap of result objects after normalize(x)
normalizeObjs(os, x) ==
  IF x.kind = "list"
  THEN Append(os, [instances |-> x.ref, containers |-> Undefined, from |-> "normalize"])
  ELSE os

\* what normalize(x) returns
normalize(os, x) == IF x.kind = "list" THEN Obj(Len(os) + 1) ELSE x

normalizeCall(x) ==
  /\ pc = "idle"
  /\ Exists(objs, instArrs, x)
  /\ Len(normalizeObjs(objs, x)) <= MaxObjs
  /\ objs' = normalizeObjs(objs, x)
  /\ last' = [Call("normalize") EXCEPT !.x = x, !.ret = normalize(objs, x)]
  /\ UNCHANGED <<recs, instArrs, contArrs, builder, made, pc, frame, hist>>

\* what reading an index of an absent containers field gives: the call throws
TypeError == -2

\* enumeration.containers[instance.containerIdx], in heap h
getContainerForInstance(h, enumeration, instance) ==
  LET c == h.objs[enumeration].containers
      idx == h.recs[instance].containerIdx
  IN IF c = Undefined THEN TypeError
     ELSE IF idx = Undefined \/ idx < 0 \/ idx >= Len(h.contArrs[c]) THEN Undefined
     ELSE h.contArrs[c][idx + 1]

\* xNormalized only, in place of xNormalized || yNormalized
onlyTheFirst(xNormalized, yNormalized) == xNormalized

\* xNormalized || yNormalized
firstOrSecond(xNormalized, yNormalized) ==
  IF xNormalized # None THEN xNormalized ELSE yNormalized

\* yInstance.containerIdx = xCategoryCount in place of += xCategoryCount
rebasedTo(containerIdx, xCategoryCount) == xCategoryCount

\* yInstance.containerIdx += xCategoryCount
rebased(containerIdx, xCategoryCount) == containerIdx + xCategoryCount

\* one turn of 'for (const yInstance of yNormalized.instances)' on the records
\* and instance arrays h, with xa and ya the arrays of x and y: the iterator
\* reads the array as it is now
mergeTurn(h, xa, ya, xCategoryCount, i) ==
  LET yInstance == h.instArrs[ya][i + 1]
  IN [instArrs |-> [h.instArrs EXCEPT ![xa] = Append(@, yInstance)],
      recs |-> IF h.recs[yInstance].containerIdx # Undefined
               THEN [h.recs EXCEPT ![yInstance].containerIdx = rebased(@, xCategoryCount)]
               ELSE h.recs]

\* the loop from turn i to its end
RECURSIVE mergeTurns(_, _, _, _, _)
mergeTurns(h, xa, ya, xCategoryCount, i) ==
  IF i >= Len(h.instArrs[ya]) THEN h
  ELSE mergeTurns(mergeTurn(h, xa, ya, xCategoryCount, i), xa, ya, xCategoryCount, i + 1)

\* the heap after merge(x, y) of two result objects of heap h that have
\* different instance arrays: the loop, and then the containers
mergeObjects(h, x, y) ==
  LET xo == h.objs[x]
      yo == h.objs[y]
      xCategoryCount == IF xo.containers # Undefined THEN Len(h.contArrs[xo.containers]) ELSE 0
      yContainers == yo.containers
      isEmpty == yContainers = Undefined \/ Len(h.contArrs[yContainers]) = 0
      t == mergeTurns([instArrs |-> h.instArrs, recs |-> h.recs],
                      xo.instances, yo.instances, xCategoryCount, 0)
  IN [recs |-> t.recs,
      instArrs |-> t.instArrs,
      contArrs |-> IF ~isEmpty /\ xo.containers # Undefined
                   THEN [h.contArrs EXCEPT ![xo.containers] = @ \o h.contArrs[yContainers]]
                   ELSE h.contArrs,
      objs |-> IF ~isEmpty /\ xo.containers = Undefined
               THEN [h.objs EXCEPT ![x].containers = yContainers]
               ELSE h.objs]

\* merge(x, y).  With an argument that is "no result" the call returns at
\* once.  When x and y have the same instance array the loop pushes onto the
\* array it reads and never reaches its end: the call is then left inside
\* the loop (pc = "merge").  Otherwise the loop takes one turn per instance
\* of y and the call returns x.
merge(x, y) ==
  LET os1 == normalizeObjs(objs, x)
      xNormalized == normalize(objs, x)
      os2 == normalizeObjs(os1, y)
      yNormalized == normalize(os1, y)
      xo == os2[xNormalized.ref]
      yo == os2[yNormalized.ref]
      xCategoryCount == IF xo.containers # Undefined THEN Len(contArrs[xo.containers]) ELSE 0
      yContainers == yo.containers
      h == mergeObjects([recs |-> recs, instArrs |-> instArrs, contArrs |-> contArrs,
                         objs |-> os2], xNormalized.ref, yNormalized.ref)
  IN /\ pc = "idle"
     /\ Exists(objs, instArrs, x) /\ Exists(objs, instArrs, y)
     /\ Len(os2) <= MaxObjs
     /\ IF xNormalized = None \/ yNormalized = None
        THEN /\ objs' = os2
             /\ last' = [Call("merge") EXCEPT !.x = x, !.y = y,
                           !.ret = firstOrSecond(xNormalized, yNormalized)]
             /\ UNCHANGED <<recs, instArrs, contArrs, pc, frame>>
        ELSE IF xo.instances = yo.instances /\ Len(instArrs[yo.instances]) > 0
        THEN /\ objs' = os2
             /\ pc' = "merge"
             /\ frame' = [x |-> xNormalized.ref, y |-> yNormalized.ref,
                          xCategoryCount |-> xCategoryCount, i |-> 0]
             /\ last' = [Call("merge") EXCEPT !.x = x, !.y = y]
             /\ UNCHANGED <<recs, instArrs, contArrs>>
        ELSE /\ Len(instArrs[xo.instances]) + Len(instArrs[yo.instances]) <= MaxArrLen
             /\ xCategoryCount + Len(ContSeq(contArrs, yContainers)) <= MaxArrLen
             /\ recs' = h.recs
             /\ instArrs' = h.instArrs
             /\ contArrs' = h.contArrs
             /\ objs' = h.objs
             /\ last' = [Call("merge") EXCEPT !.x = x, !.y = y, !.ret = xNormalized]
             /\ UNCHANGED <<pc, frame>>
     /\ UNCHANGED <<builder, made, hist>>

\* one turn of a loop of merge that reads the array it pushes onto
mergeLoop ==
  LET xa == objs[frame.x].instances
      ya == objs[frame.y].instances
      h == mergeTurn([instArrs |-> instArrs, recs |-> recs], xa, ya,
                     frame.xCategoryCount, frame.i)
  IN /\ pc = "merge"
     /\ frame.i < Len(instArrs[ya])
     /\ Len(instArrs[xa]) < MaxArrLen
     /\ instArrs' = h.instArrs
     /\ recs' = h.recs
     /\ frame' = [frame EXCEPT !.i = @ + 1]
     /\ UNCHANGED <<contArrs, objs, builder, made, pc, hist, last>>

----------------------------------------------------------------------------
(* Builders and the combinators together, on plain instances.  A builder   *)
(* lives as the specification of the code has it: it is created empty,     *)
(* changed by push and pop, read once by complete and then discarded; and  *)
(* the callers combine their results after they have built them.  A record *)
(* is pushed again only on the builder that holds it.                      *)

Building == pc = "idle" /\ last.op \notin {"complete", "normalize", "merge"}

MergeNext ==
  \/ \E v \in PlainInstances, m \in BOOLEAN :
       Building /\ Len(recs) < SmallRecs /\ PushNewInstance(v, m)
  \/ \E r \in Range(InstSeq(instArrs, builder.instances)), m \in BOOLEAN :
       Building /\ PushSameInstance(r, m)
  \/ Building /\ made.containers < SmallContainers /\ PushNewContainer
  \/ Building /\ popContainer
  \/ Building /\ Len(objs) < SmallObjs /\ complete
  \/ last.op = "complete" /\ made.builders < SmallBuilders /\ NewBuilder
  \/ \E x \in Enumerations : normalizeCall(x)
  \/ \E x, y \in Enumerations : merge(x, y)
  \/ mergeLoop

MergeSpec == Init /\ [][MergeNext]_vars

----------------------------------------------------------------------------
(* Properties of the accumulator *)

\* the instance sequence of the builder, before and after a step
Accumulated == InstSeq(instArrs, builder.instances)
AccumulatedNext == InstSeq(instArrs', builder'.instances)

\* the container sequence of the builder
BuilderContainers == ContSeq(contArrs, builder.containers)

\* a containerIdx that is absent or indexes the container sequence cs
ValidIdx(idx, cs) == idx = Undefined \/ (0 <= idx /\ idx < Len(cs))

\* every instance of the sequence 'arr' has a valid containerIdx for 'cs'
ValidIn(rs, arr, cs) == \A j \in 1..Len(arr) : ValidIdx(rs[arr[j]].containerIdx, cs)

\* C1 (as claimed): once a key of properties or validValues has a value on an
\* accumulated instance, no later step changes the value under that key,
\* whatever the value is.
FirstWriterWins ==
  [][\A j \in 1..Len(Accumulated) : \A f \in {"properties", "validValues"} : \A k \in Keys :
       recs[Accumulated[j]][f].vals[k] # Missing
         => recs'[Accumulated[j]][f].vals[k] = recs[Accumulated[j]][f].vals[k]]_vars

\* C2: the cursor is unset or the index of the last container; every
\* accumulated instance's containerIdx, when present, indexes the builder's
\* containers; and so does every containerIdx of a result complete returns.
ContainerIdxValid ==
  /\ builder.containerIdx = Undefined \/ builder.containerIdx = Len(BuilderContainers) - 1
  /\ ValidIn(recs, Accumulated, BuilderContainers)
  /\ (last.op = "complete" /\ last.ret # None) =>
       ValidIn(recs, InstSeq(instArrs, objs[last.ret.ref].instances),
               ContSeq(contArrs, objs[last.ret.ref].containers))

\* complete has returned a result with two containers and an instance in the second
ContainerIdxValidWitness ==
  /\ last.op = "complete" /\ last.ret # None
  /\ Len(ContSeq(contArrs, objs[last.ret.ref].containers)) = 2
  /\ \E j \in 1..Len(Accumulated) : recs[Accumulated[j]].containerIdx = 1
  /\ \E j \in 1..Len(Accumulated) : recs[Accumulated[j]].containerIdx = Undefined

\* C5: complete returns "no result" exactly when pushInstance was never called
\* on the builder; otherwise the result carries the builder's instance sequence.
FinalizeOnEmpty ==
  last.op = "complete" =>
    /\ last.ret = None <=> ~hist.pushedInstance
    /\ last.ret # None =>
         /\ last.ret.kind = "obj"
         /\ builder.instances # Undefined
         /\ objs[last.ret.ref].instances = builder.instances

\* complete has returned "no result" on a builder that has containers only
FinalizeOnEmptyWitness ==
  /\ last.op = "complete" /\ last.ret = None
  /\ Len(hist.containers) > 0 /\ ~hist.open

\* C6: pushInstance stamps the instance with the index of the container pushed
\* last when no popContainer came after that pushContainer, and otherwise
\* gives it no containerIdx (the field stays as it was: unset on a new
\* instance); popContainer always leaves the cursor unset.
FlatCursor ==
  [][/\ last'.op = "pushInstance" =>
          recs'[last'.inst].containerIdx =
            IF hist.open THEN Len(hist.containers) - 1
            ELSE IF last'.inst <= Len(recs) THEN recs[last'.inst].containerIdx
            ELSE Undefined
     /\ last'.op = "popContainer" => builder'.containerIdx = Undefined]_vars

\* after pushContainer, pushContainer, popContainer the pushed instance is unstamped
FlatCursorWitness ==
  /\ last.op = "pushInstance"
  /\ Len(hist.containers) = 2 /\ ~hist.open
  /\ recs[last.inst].containerIdx = Undefined
  /\ builder.containerIdx = Undefined

\* equality of selectors as the claims state it
SameSelector(x, y) ==
  \/ SelFalsy(x) /\ SelFalsy(y)
  \/ ~SelFalsy(x) /\ ~SelFalsy(y) /\ x.id = y.id /\ x.metadata = y.metadata

\* C7: a pushInstance with merging enabled appends the incoming instance
\* exactly when no accumulated instance has the same objectName, the same
\* containerIdx (after stamping) and an equal selector.
MergePredicate ==
  [][(last'.op = "pushInstance" /\ last'.mergeInstances) =>
       LET r == recs'[last'.inst]
           same(e) == /\ recs'[e].objectName = r.objectName
                      /\ recs'[e].containerIdx = r.containerIdx
                      /\ SameSelector(recs'[e].selector, r.selector)
       IN /\ AccumulatedNext \in {Accumulated, Append(Accumulated, last'.inst)}
          /\ AccumulatedNext = Append(Accumulated, last'.inst)
               <=> ~\E j \in 1..Len(Accumulated) : same(Accumulated[j])]_vars

\* two instances of one objectName and selector, one under a container and one
\* not, are both accumulated after a merging push
MergePredicateWitness ==
  /\ last.op = "pushInstance" /\ last.mergeInstances
  /\ Len(Accumulated) = 2
  /\ Accumulated[2] = last.inst
  /\ Accumulated[1] # Accumulated[2]
  /\ recs[Accumulated[1]].objectName = recs[Accumulated[2]].objectName
  /\ SameSelector(recs[Accumulated[1]].selector, recs[Accumulated[2]].selector)
  /\ recs[Accumulated[1]].containerIdx # recs[Accumulated[2]].containerIdx

\* C9: the instance sequence only grows at its end, by at most one instance
\* per step and only in pushInstance.
InstancesNeverRemoved ==
  [][/\ Len(AccumulatedNext) >= Len(Accumulated)
     /\ SubSeq(AccumulatedNext, 1, Len(Accumulated)) = Accumulated
     /\ Len(AccumulatedNext) <= Len(Accumulated) + 1
     /\ last'.op # "pushInstance" => AccumulatedNext = Accumulated]_vars

\* a new instance was merged away and the sequence kept its two entries
InstancesNeverRemovedWitness ==
  /\ last.op = "pushInstance" /\ last.mergeInstances
  /\ Len(Accumulated) = 2
  /\ \A j \in 1..Len(Accumulated) : Accumulated[j] # last.inst

\* C10: the builder's container sequence is the sequence of the pushContainer
\* arguments in call order, and a result of complete has a containers field
\* exactly when pushContainer was called.
ContainersInPushOrder ==
  /\ BuilderContainers = hist.containers
  /\ (last.op = "complete" /\ last.ret # None) =>
       /\ objs[last.ret.ref].containers # Undefined <=> Len(hist.containers) > 0
       /\ ContSeq(contArrs, objs[last.ret.ref].containers) = hist.containers

\* complete has returned a result with the two containers pushed
ContainersInPushOrderWitness ==
  /\ last.op = "complete" /\ last.ret # None
  /\ Len(hist.containers) = 2
  /\ objs[last.ret.ref].containers # Undefined

----------------------------------------------------------------------------
(* Properties of merge *)

\* the instances and the containers of result object o in heap h
InstancesOf(h, o) == InstSeq(h.instArrs, h.objs[o].instances)
ContainersOf(h, o) == ContSeq(h.contArrs, h.objs[o].containers)

\* every result object so far was made by complete (no list was normalized)
OnlyCompleteResults == \A o \in 1..Len(objs) : objs[o].from = "complete"

\* a call of merge has just returned
MergeReturned == last.op = "merge" /\ pc = "idle"
MergeReturns == last'.op = "merge" /\ pc' = "idle"

\* C3 (as claimed): whatever merge calls were made on results of complete,
\* every containerIdx in a result that merge returns indexes that result's
\* containers.
MergeKeepsIdxValid ==
  (MergeReturned /\ last.ret # None /\ OnlyCompleteResults) =>
    ValidIn(recs, InstancesOf(Heap, last.ret.ref), ContainersOf(Heap, last.ret.ref))

\* a result object of heap h whose every containerIdx indexes its containers
ValidResult(h, o) == ValidIn(h.recs, InstancesOf(h, o), ContainersOf(h, o))

\* C4 (as claimed): merge(x, y) of two results of complete that share no
\* records (each with valid container indices before the call) returns
\* x with x's instances followed by y's, x's containers followed by y's,
\* x's containerIdx values kept and y's increased by x's container count, and
\* getContainerForInstance gives every instance the container it had before.
MergeRebases ==
  [][(/\ MergeReturns
      /\ last'.x.kind = "obj" /\ last'.y.kind = "obj"
      /\ objs[last'.x.ref].from = "complete" /\ objs[last'.y.ref].from = "complete"
      /\ ValidResult(Heap, last'.x.ref) /\ ValidResult(Heap, last'.y.ref)
      /\ Range(InstancesOf(Heap, last'.x.ref)) \cap Range(InstancesOf(Heap, last'.y.ref)) = {})
     =>
     LET x == last'.x.ref
         y == last'.y.ref
         offset == Len(ContainersOf(Heap, x))
     IN /\ last'.ret = last'.x
        /\ InstancesOf(HeapNext, x) = InstancesOf(Heap, x) \o InstancesOf(Heap, y)
        /\ ContainersOf(HeapNext, x) = ContainersOf(Heap, x) \o ContainersOf(Heap, y)
        /\ \A r \in Range(InstancesOf(Heap, x)) :
             /\ recs'[r].containerIdx = recs[r].containerIdx
             /\ recs[r].containerIdx # Undefined =>
                  getContainerForInstance(HeapNext, x, r) = getContainerForInstance(Heap, x, r)
        /\ \A r \in Range(InstancesOf(Heap, y)) :
             /\ recs[r].containerIdx = Undefined => recs'[r].containerIdx = Undefined
             /\ recs[r].containerIdx # Undefined =>
                  /\ recs'[r].containerIdx = recs[r].containerIdx + offset
                  /\ getContainerForInstance(HeapNext, x, r) = getContainerForInstance(Heap, y, r)]_vars

\* C8: merge of "no result" with a result R returns R and changes nothing, with
\* R as either argument; merge of "no result" with "no result" returns
\* "no result".
MergeIdentity ==
  [][MergeReturns =>
       /\ (last'.x = None /\ last'.y.kind = "obj") => (last'.ret = last'.y /\ HeapNext = Heap)
       /\ (last'.y = None /\ last'.x.kind = "obj") => (last'.ret = last'.x /\ HeapNext = Heap)
       /\ (last'.x = None /\ last'.y = None) => (last'.ret = None /\ HeapNext = Heap)]_vars

\* merge("no result", R) has returned R, a result with a container and an instance in it
MergeIdentityWitness ==
  /\ MergeReturned
  /\ last.x = None /\ last.y.kind = "obj" /\ last.ret = last.y
  /\ Len(ContainersOf(Heap, last.y.ref)) > 0
  /\ \E r \in Range(InstancesOf(Heap, last.y.ref)) : recs[r].containerIdx # Undefined

----------------------------------------------------------------------------
(* Termination of merge                                                    *)

\* the instances y had when the running merge call started: each turn so
\* far has pushed one instance, and only a loop that pushes onto the array
\* it reads is ever left running
yLengthAtCall == Len(instArrs[objs[frame.y].instances]) - frame.i

\* C11: merge(x, y) finishes after appending exactly the instances y had
\* when the call started, also when x and y are the same result or share
\* one instance sequence: a running call has never taken more turns than y
\* had instances at its start
MergeAppendsWhatYHad ==
  pc = "merge" => frame.i <= yLengthAtCall

----------------------------------------------------------------------------
(* selectorEquals as a function of its two arguments                       *)

selectorEqualsCall(x, y) ==
  /\ pc = "idle"
  /\ last' = [Call("selectorEquals") EXCEPT !.sel = <<x, y>>, !.eq = selectorEquals(x, y)]
  /\ UNCHANGED <<recs, instArrs, contArrs, objs, builder, made, pc, frame, hist>>

SelectorNext == \E x \in Selectors, y \in Selectors : selectorEqualsCall(x, y)

SelectorSpec == Init /\ [][SelectorNext]_vars

\* C12: selectorEquals takes every falsy selector for "no selector": it is
\* true for two of them and false for one of them against an object; for two
\* objects it is true exactly when the ids are equal and the metadata are
\* equal; and it is reflexive, symmetric and transitive.
SelectorEquivalence ==
  last.op = "selectorEquals" =>
    LET x == last.sel[1]
        y == last.sel[2]
    IN /\ last.eq = SameSelector(x, y)
       /\ SelFalsy(x) # SelFalsy(y) => ~last.eq
       /\ selectorEquals(x, x)
       /\ selectorEquals(y, x) = last.eq
       /\ \A z \in Selectors : last.eq /\ selectorEquals(y, z) => selectorEquals(x, z)

\* two different falsy selectors were compared and found equal
SelectorEquivalenceWitness ==
  /\ last.op = "selectorEquals"
  /\ last.sel = <<SelUndefined, SelFalse>>
  /\ last.eq

----------------------------------------------------------------------------
(* Properties of normalize                                                 *)

\* a result as a value: what its two fields refer to
Canonical(os, e) ==
  IF e = None THEN None
  ELSE [instances |-> os[e.ref].instances, containers |-> os[e.ref].containers]

\* C13: normalize maps a list L to the result { instances: L } without
\* containers, returns a result object as it is, maps "no result" to "no
\* result", changes nothing that exists, gives for L what it gives for
\* { instances: L }, and is idempotent.
NormalizeCanonical ==
  [][last'.op = "normalize" =>
       LET x == last'.x
           ret == last'.ret
       IN /\ x.kind = "list" =>
               /\ ret.kind = "obj"
               /\ Canonical(objs', ret) = [instances |-> x.ref, containers |-> Undefined]
               /\ \A o \in 1..Len(objs') :
                    Canonical(objs', Obj(o)) = [instances |-> x.ref, containers |-> Undefined]
                      => Canonical(normalizeObjs(objs', Obj(o)), normalize(objs', Obj(o)))
                           = Canonical(objs', ret)
          /\ x.kind = "obj" => (ret = x /\ objs' = objs)
          /\ x.kind = "none" => (ret = None /\ objs' = objs)
          /\ \A o \in 1..Len(objs) : objs'[o] = objs[o]
          /\ recs' = recs /\ instArrs' = instArrs /\ contArrs' = contArrs
          /\ normalize(objs', ret) = ret
          /\ normalizeObjs(objs', ret) = objs']_vars

\* normalize of a list of instances has returned a result around that list
NormalizeCanonicalWitness ==
  /\ last.op = "normalize"
  /\ last.x.kind = "list" /\ last.ret.kind = "obj"
  /\ objs[last.ret.ref].instances = last.x.ref
  /\ Len(InstancesOf(Heap, last.ret.ref)) > 0

----------------------------------------------------------------------------
(* The frame of a merged push                                              *)

\* One builder fed with instances of one target that differ in what they
\* carry, so that several accumulated instances can match an incoming one
FoldNext ==
  \/ \E v \in PayloadInstances, m \in BOOLEAN : PushNewInstance(v, m)
  \/ \E r \in 1..MaxRecs, m \in BOOLEAN : PushSameInstance(r, m)
  \/ made.containers < SmallContainers /\ PushNewContainer
  \/ popContainer

FoldSpec == Init /\ [][FoldNext]_vars

\* the step is a pushInstance with merging enabled
MergingPush == last'.op = "pushInstance" /\ last'.mergeInstances

\* accumulated instance e has the objectName, the containerIdx and a selector
\* equal to those of the incoming instance, as they are after the stamping
MatchesIncoming(e) ==
  /\ recs'[e].objectName = recs'[last'.inst].objectName
  /\ recs'[e].containerIdx = recs'[last'.inst].containerIdx
  /\ SameSelector(recs'[e].selector, recs'[last'.inst].selector)

\* positions of the accumulated instances that match the incoming one
MatchingPositions == {j \in 1..Len(Accumulated) : MatchesIncoming(Accumulated[j])}

\* the first of them in insertion order
FirstMatching == CHOOSE j \in MatchingPositions : \A k \in MatchingPositions : j <= k

\* under every key, map 'after' has what 'before' or 'incoming' had, and it
\* has a value wherever the incoming map has one
Folded(before, incoming, after) ==
  \A k \in Keys :
    /\ after.vals[k] \in {before.vals[k], incoming.vals[k]}
    /\ incoming.vals[k] # Missing => after.vals[k] # Missing

\* what the claim says of a merged push that found a match
FoldsIntoFirstOnly ==
  LET t == Accumulated[FirstMatching]
      incoming == recs'[last'.inst]
  IN /\ AccumulatedNext = Accumulated
     /\ Folded(recs[t].properties, incoming.properties, recs'[t].properties)
     /\ Folded(recs[t].validValues, incoming.validValues, recs'[t].validValues)
     /\ recs'[t].objectName = recs[t].objectName
     /\ recs'[t].selector = recs[t].selector
     /\ recs'[t].containerIdx = recs[t].containerIdx
     /\ \A e \in Range(Accumulated) \ {t} : recs'[e] = recs[e]
     /\ contArrs' = contArrs
     /\ builder'.containers = builder.containers
     /\ builder'.containerIdx = builder.containerIdx

----------------------------------------------------------------------------
(* Three results and the merges of them                                    *)

\* Up to three builders, each fed with new instances and containers and
\* completed once, and then merge calls on two different results
ResultsNext ==
  \/ \E v \in PlainInstances, m \in BOOLEAN : Building /\ PushNewInstance(v, m)
  \/ Building /\ PushNewContainer
  \/ Building /\ popContainer
  \/ Building /\ complete
  \/ last.op = "complete" /\ NewBuilder
  \/ \E x \in 1..MaxObjs, y \in 1..MaxObjs : x # y /\ merge(Obj(x), Obj(y))

ResultsSpec == Init /\ [][ResultsNext]_vars

\* C15: a result is changed only by a merge call that takes it as first
\* argument: a call of merge leaves the instance sequence and the container
\* sequence of every result other than its first argument as they were, be
\* the result its second argument or no argument of the call.
OnlyFirstArgumentChanges ==
  [][(MergeReturns /\ last'.x.kind = "obj") =>
       \A o \in 1..Len(objs) :
         o # last'.x.ref =>
           /\ InstancesOf(HeapNext, o) = InstancesOf(Heap, o)
           /\ ContainersOf(HeapNext, o) = ContainersOf(Heap, o)]_vars

----------------------------------------------------------------------------
(* Uniqueness under merging                                                *)

\* One builder whose every pushInstance has merging enabled and a new record
UniqueNext ==
  \/ \E v \in IdentityInstances : PushNewInstance(v, TRUE)
  \/ PushNewContainer
  \/ popContainer
  \/ complete

UniqueSpec == Init /\ [][UniqueNext]_vars

\* the merge predicate between two records, as the claims state it
SameTarget(x, y) ==
  /\ x.objectName = y.objectName
  /\ x.containerIdx = y.containerIdx
  /\ SameSelector(x.selector, y.selector)

\* C16: when every pushInstance call uses merging and every pushed instance
\* is a distinct record, no two accumulated instances satisfy the merge
\* predicate with each other.
UniqueUnderMerging ==
  \A j \in 1..Len(Accumulated), k \in 1..Len(Accumulated) :
    j < k => ~SameTarget(recs[Accumulated[j]], recs[Accumulated[k]])

\* three pushes with merging have left two instances: one was folded, and
\* the two that are kept differ only in the container they belong to
UniqueUnderMergingWitness ==
  /\ last.op = "pushInstance" /\ last.mergeInstances
  /\ Len(recs) = 3 /\ Len(Accumulated) = 2
  /\ recs[Accumulated[1]].objectName = recs[Accumulated[2]].objectName
  /\ SameSelector(recs[Accumulated[1]].selector, recs[Accumulated[2]].selector)
  /\ recs[Accumulated[1]].containerIdx # recs[Accumulated[2]].containerIdx

----------------------------------------------------------------------------
(* The order of container indices                                          *)

\* the containerIdx values that are present do not decrease along 'arr'
Ordered(rs, arr) ==
  \A j \in 1..Len(arr), k \in 1..Len(arr) :
    (j < k /\ rs[arr[j]].containerIdx # Undefined /\ rs[arr[k]].containerIdx # Undefined)
      => rs[arr[j]].containerIdx <= rs[arr[k]].containerIdx

\* C17: the containerIdx values that are present are non-decreasing along
\* the instance sequence of the accumulator in every reachable state, and
\* merge(x, y) of two results with this property returns a result with this
\* property.
ContainerIdxOrdered ==
  [][/\ Ordered(recs', AccumulatedNext)
     /\ (/\ MergeReturns
         /\ last'.x.kind = "obj" /\ last'.y.kind = "obj"
         /\ Ordered(recs, InstancesOf(Heap, last'.x.ref))
         /\ Ordered(recs, InstancesOf(Heap, last'.y.ref)))
        => Ordered(recs', InstancesOf(HeapNext, last'.ret.ref))]_vars

----------------------------------------------------------------------------
(* What complete returns                                                   *)

\* C18: whenever complete returns a result, the instance sequence of the
\* result has at least one entry.
CompleteNeverEmpty ==
  (last.op = "complete" /\ last.ret # None) =>
    Len(InstancesOf(Heap, last.ret.ref)) >= 1

\* complete has returned a result with one instance after two pushes, the
\* second of which was folded into the first
CompleteNeverEmptyWitness ==
  /\ last.op = "complete" /\ last.ret # None
  /\ Len(recs) = 2
  /\ Len(InstancesOf(Heap, last.ret.ref)) = 1

----------------------------------------------------------------------------
(* Associativity of merge                                                  *)

\* results x, y and z of the heap are three results that share no records
ShareNoRecords(x, y, z) ==
  /\ x # y /\ y # z /\ x # z
  /\ Range(InstancesOf(Heap, x)) \cap Range(InstancesOf(Heap, y)) = {}
  /\ Range(InstancesOf(Heap, y)) \cap Range(InstancesOf(Heap, z)) = {}
  /\ Range(InstancesOf(Heap, x)) \cap Range(InstancesOf(Heap, z)) = {}

\* the heap after merge(merge(x, y), z), and after merge(x, merge(y, z))
LeftFirst(x, y, z) == mergeObjects(mergeObjects(Heap, x, y), x, z)
RightFirst(x, y, z) == mergeObjects(mergeObjects(Heap, y, z), x, y)

\* the containerIdx values along the instance sequence of result o of heap h
IndicesOf(h, o) ==
  [j \in 1..Len(InstancesOf(h, o)) |-> h.recs[InstancesOf(h, o)[j]].containerIdx]

\* C19: for results x, y, z that share no records, merge(merge(x, y), z) and
\* merge(x, merge(y, z)) give the same instance sequence, the same
\* containerIdx values and the same container sequence.
MergeAssociative ==
  \A x \in 1..Len(objs), y \in 1..Len(objs), z \in 1..Len(objs) :
    ShareNoRecords(x, y, z) =>
      /\ InstancesOf(LeftFirst(x, y, z), x) = InstancesOf(RightFirst(x, y, z), x)
      /\ IndicesOf(LeftFirst(x, y, z), x) = IndicesOf(RightFirst(x, y, z), x)
      /\ ContainersOf(LeftFirst(x, y, z), x) = ContainersOf(RightFirst(x, y, z), x)

\* three results with one container and one instance each: merged in
\* either order they give three instances in containers 0, 1 and 2
MergeAssociativeWitness ==
  /\ Len(objs) = 3 /\ ShareNoRecords(1, 2, 3)
  /\ IndicesOf(Heap, 1) = <<0>> /\ IndicesOf(Heap, 2) = <<0>> /\ IndicesOf(Heap, 3) = <<0>>
  /\ IndicesOf(LeftFirst(1, 2, 3), 1) = <<0, 1, 2>>
  /\ Len(ContainersOf(RightFirst(1, 2, 3), 1)) = 3
====
